---------------------------- MODULE Spec2Model ----------------------------
(***************************************************************************)
(* Token issuance and lifecycle service of chaosplatform-auth.             *)
(*                                                                         *)
(* AuthRPC (src/chaosplt_auth/rpc.py) signs access/refresh tokens with     *)
(* NoAppJWTManager and keeps one metadata row per issued token in          *)
(* storage.access_token.  The storage package is not part of the sources   *)
(* at hand; its operations, named storage_..., follow the TokenStore      *)
(* contract of the specification.                                          *)
(*                                                                         *)
(* Python values are modelled as records, so that values of different      *)
(* Python types can be compared: None, a str (the empty one or a JWT), an  *)
(* AccessToken message.  A UUID primary key is an integer and str(uuid)    *)
(* is its decimal text.                                                    *)
(***************************************************************************)
EXTENDS Integers, Sequences, FiniteSets, TLC

(* ------------------------------ bounds --------------------------------- *)

\* create_access_token calls ever begun
MaxCalls == 2

Users == {"u1", "u2"}

Names == {"laptop", "ci"}

\* the handlers that serve create_access_token calls concurrently
Clients == {1, 2}

(* --------------------------- Python values ----------------------------- *)

None == [type |-> "NoneType"]

EmptyStr == [type |-> "str"]

\* a slip: `x is None` in place of `not x`
Falsy_none_only(x) == x = None

\* `not x` for the values create_access_token tests: None and "" are falsy
Falsy(x) == x = None \/ x = EmptyStr

\* an exception leaving a handler
Raised(exc) == [type |-> "raise", exc |-> exc]

\* str(uuid): the canonical text of a primary key
Str(id) == ToString(id)

(* ------------------------------- state --------------------------------- *)

VARIABLES
  config,      \* AuthRPC.jwt.config
  user_claims_loader,  \* AuthRPC.jwt._user_claims_callback: the custom claims it returns
  tokens,      \* storage.access_token: the stored rows
  next_id,     \* the primary key the store gives its next row
  now,         \* the store's clock, read for a row's creation time
  calls,       \* create_access_token calls begun so far
  pc,          \* per client: "idle", or "create_store" inside create_access_token
  frame,       \* per client: the locals of its create_access_token call
  created,     \* the response of create_access_token while it is the call that
               \* completed last, NoCall once another call has completed
  deleted,     \* history: ids of rows a delete_access_token by their owner hit
  freed        \* history: the <<user_id, name>> of those rows

vars == <<config, user_claims_loader, tokens, next_id, now, calls, pc, frame, created, deleted, freed>>

(* ------------------------------ signer --------------------------------- *)

\* a str that is no token: a signing secret
Secret == [type |-> "str", text |-> "s3cr3t"]

\* config.get("jwt"): read once at construction, never written
JwtConfig(claims_in_refresh) ==
  [ secret_key |-> Secret,
    algorithm |-> "HS256",
    access_token_expires |-> 900,
    refresh_token_expires |-> 86400,
    identity_claim_key |-> "identity",
    user_claims_key |-> "user_claims",
    user_claims_in_refresh_token |-> claims_in_refresh ]

Configs == {JwtConfig(flag) : flag \in BOOLEAN}

\* a dict of custom claims: its items as a set of <<key, value>> pairs
Dict(items) == [type |-> "dict", items |-> items]

\* JWTManager(app=None) keeps the default user-claims loader, which returns {},
\* until user_claims_loader registers another
_user_claims_callback(identity) == user_claims_loader

\* d[key] raises KeyError for one of the keys
Missing(d, keys) == \E k \in keys : k \notin DOMAIN d

\* a slip: config.get("secret_key", <a default>) in place of config["secret_key"]
encode_key_callback_default(cfg, identity) ==
  IF Missing(cfg, {"secret_key"}) THEN [type |-> "str", text |-> "secret"] ELSE cfg.secret_key

encode_key_callback(cfg, identity) ==
  IF Missing(cfg, {"secret_key"}) THEN Raised("KeyError") ELSE cfg.secret_key

_user_identity_callback(identity) == identity

\* flask_jwt_extended.tokens._encode_jwt: header.payload.signature; the
\* signature is determined by the payload, the secret and the algorithm
_encode_jwt(payload, secret, algorithm) ==
  [ type |-> "str",
    header |-> [alg |-> algorithm, typ |-> "JWT"],
    payload |-> payload,
    signature |-> <<algorithm, secret>> ]

\* claims present under user_claims_key: the library leaves the key out when
\* user_claims is None or empty
ClaimsEntry(user_claims_key, user_claims) ==
  IF user_claims = None \/ user_claims = Dict({})
  THEN <<>>
  ELSE <<user_claims_key, user_claims>>

encode_access_token(identity, secret, algorithm, expires_delta, fresh, user_claims, identity_claim_key, user_claims_key, jti) ==
  _encode_jwt([ jti |-> jti,
                exp_delta |-> expires_delta,
                type |-> "access",
                fresh |-> fresh,
                identity |-> <<identity_claim_key, identity>>,
                user_claims |-> ClaimsEntry(user_claims_key, user_claims) ],
              secret, algorithm)

encode_refresh_token(identity, secret, algorithm, expires_delta, user_claims, identity_claim_key, user_claims_key, jti) ==
  _encode_jwt([ jti |-> jti,
                exp_delta |-> expires_delta,
                type |-> "refresh",
                identity |-> <<identity_claim_key, identity>>,
                user_claims |-> ClaimsEntry(user_claims_key, user_claims) ],
              secret, algorithm)

\* a slip: the custom claims are passed whatever the flag says
_create_refresh_token_always_claims(cfg, identity, jti) ==
  IF \/ Missing(cfg, {"refresh_token_expires", "user_claims_in_refresh_token"})
     \/ encode_key_callback(cfg, identity) = Raised("KeyError")
     \/ Missing(cfg, {"algorithm", "identity_claim_key", "user_claims_key"})
  THEN Raised("KeyError")
  ELSE encode_refresh_token(_user_identity_callback(identity),
                            encode_key_callback(cfg, identity),
                            cfg.algorithm, cfg.refresh_token_expires,
                            _user_claims_callback(identity),
                            cfg.identity_claim_key, cfg.user_claims_key, jti)

\* every self.config[...] raises KeyError when the key is absent
_create_refresh_token(cfg, identity, jti) ==
  IF \/ Missing(cfg, {"refresh_token_expires", "user_claims_in_refresh_token"})
     \/ encode_key_callback(cfg, identity) = Raised("KeyError")
     \/ Missing(cfg, {"algorithm", "identity_claim_key", "user_claims_key"})
  THEN Raised("KeyError")
  ELSE LET expires_delta == cfg.refresh_token_expires
           user_claims == IF cfg.user_claims_in_refresh_token
                          THEN _user_claims_callback(identity)
                          ELSE None
       IN encode_refresh_token(_user_identity_callback(identity),
                               encode_key_callback(cfg, identity),
                               cfg.algorithm, expires_delta, user_claims,
                               cfg.identity_claim_key, cfg.user_claims_key, jti)

\* a slip: the two claim keys are passed in each other's place
_create_access_token_keys_swapped(cfg, identity, jti) ==
  IF \/ Missing(cfg, {"access_token_expires"})
     \/ encode_key_callback(cfg, identity) = Raised("KeyError")
     \/ Missing(cfg, {"algorithm", "identity_claim_key", "user_claims_key"})
  THEN Raised("KeyError")
  ELSE encode_access_token(_user_identity_callback(identity),
                           encode_key_callback(cfg, identity),
                           cfg.algorithm, cfg.access_token_expires, FALSE,
                           _user_claims_callback(identity),
                           cfg.user_claims_key, cfg.identity_claim_key, jti)

_create_access_token(cfg, identity, jti) ==
  IF \/ Missing(cfg, {"access_token_expires"})
     \/ encode_key_callback(cfg, identity) = Raised("KeyError")
     \/ Missing(cfg, {"algorithm", "identity_claim_key", "user_claims_key"})
  THEN Raised("KeyError")
  ELSE LET expires_delta == cfg.access_token_expires
       IN encode_access_token(_user_identity_callback(identity),
                              encode_key_callback(cfg, identity),
                              cfg.algorithm, expires_delta, FALSE,
                              _user_claims_callback(identity),
                              cfg.identity_claim_key, cfg.user_claims_key, jti)

\* decoding a token with the secret it was signed with yields its claims
decode_token(token) == token.payload

(* ------------------------- storage.access_token ------------------------ *)

Time(t) == [type |-> "datetime", t |-> t]

\* the jti the store persists: the one encoded in the access token
JtiOf(access_token) == decode_token(access_token).jti

\* a slip: only (user_id, name) is constrained
storage_conflict_name_only(rows, name, user_id, access_token) ==
  \E r \in rows : r.user_id = user_id /\ r.name = name

\* the uniqueness constraints of the table: (user_id, name) and jti
storage_conflict(rows, name, user_id, access_token) ==
  \E r \in rows : (r.user_id = user_id /\ r.name = name) \/ r.jti = JtiOf(access_token)

storage_new_row(id, t, name, user_id, access_token, refresh_token) ==
  [ id |-> id,
    user_id |-> user_id,
    name |-> name,
    access_token |-> access_token,
    refresh_token |-> refresh_token,
    revoked |-> FALSE,
    issed_on |-> Time(t),
    last_used_on |-> None,
    jti |-> JtiOf(access_token) ]

storage_get(rows, token_id) ==
  IF \E r \in rows : Str(r.id) = token_id
  THEN CHOOSE r \in rows : Str(r.id) = token_id
  ELSE None

storage_get_by_name(rows, user_id, name) ==
  IF \E r \in rows : r.user_id = user_id /\ r.name = name
  THEN CHOOSE r \in rows : r.user_id = user_id /\ r.name = name
  ELSE None

storage_get_by_jti(rows, user_id, jti) ==
  IF \E r \in rows : r.user_id = user_id /\ r.jti = jti
  THEN CHOOSE r \in rows : r.user_id = user_id /\ r.jti = jti
  ELSE None

\* the rows of a set in primary-key order
RECURSIVE RowsById(_)
RowsById(rows) ==
  IF rows = {}
  THEN <<>>
  ELSE LET first == CHOOSE r \in rows : \A q \in rows : r.id <= q.id
       IN <<first>> \o RowsById(rows \ {first})

\* the values of the mapping get_by_user returns, in insertion order
storage_get_by_user(rows, user_id) ==
  RowsById({r \in rows : r.user_id = user_id})

storage_revoke(rows, user_id, token_id) ==
  { IF Str(r.id) = token_id /\ r.user_id = user_id
    THEN [r EXCEPT !.revoked = TRUE]
    ELSE r : r \in rows }

storage_delete(rows, user_id, token_id) ==
  { r \in rows : ~(Str(r.id) = token_id /\ r.user_id = user_id) }

(* ------------------------------- AuthRPC ------------------------------- *)

\* a slip: the two token fields are filled from each other's attribute
AccessToken_swapped(token) ==
  IF token = None THEN Raised("AttributeError") ELSE
  [ id |-> Str(token.id),
    user_id |-> token.user_id,
    name |-> token.name,
    access_token |-> token.refresh_token,
    refresh_token |-> token.access_token,
    revoked |-> token.revoked,
    issued_on |-> token.issed_on,
    last_used_on |-> token.last_used_on,
    jti |-> token.jti ]

\* the AccessToken message built from a stored row; the row's creation time is
\* read from its attribute issed_on; reading an attribute of None raises
AccessToken(token) ==
  IF token = None THEN Raised("AttributeError") ELSE
  [ id |-> Str(token.id),
    user_id |-> token.user_id,
    name |-> token.name,
    access_token |-> token.access_token,
    refresh_token |-> token.refresh_token,
    revoked |-> token.revoked,
    issued_on |-> token.issed_on,
    last_used_on |-> token.last_used_on,
    jti |-> token.jti ]

\* a slip: the message is built without the test for None
MessageOrNone_unchecked(token) == AccessToken(token)

\* `if not token: return None`, else the message
MessageOrNone(token) == IF token = None THEN None ELSE AccessToken(token)

\* the return values of the lookups, in the current state of the store
get(token_id) == MessageOrNone(storage_get(tokens, token_id))

get_by_name(user_id, name) == MessageOrNone(storage_get_by_name(tokens, user_id, name))

\* a slip: the row is looked up by jti alone
get_by_jti_unscoped(user_id, jti) ==
  LET hit == {r \in tokens : r.jti = jti}
  IN IF hit = {} THEN None ELSE AccessToken(CHOOSE r \in hit : TRUE)

get_by_jti(user_id, jti) == MessageOrNone(storage_get_by_jti(tokens, user_id, jti))

\* a slip: revoked rows are skipped
get_by_user_active_only(user_id) ==
  LET values == SelectSeq(storage_get_by_user(tokens, user_id), LAMBDA r : ~r.revoked)
  IN [i \in 1..Len(values) |-> AccessToken(values[i])]

get_by_user(user_id) ==
  LET values == storage_get_by_user(tokens, user_id)
  IN [i \in 1..Len(values) |-> AccessToken(values[i])]

\* a slip: the row is removed whoever owns it
delete_access_token_any_owner(user_id, token_id) == {r \in tokens : Str(r.id) # token_id}

\* a slip: delete_access_token calls the store's revoke
delete_access_token_revokes(user_id, token_id) == storage_revoke(tokens, user_id, token_id)

\* the table after the two mutating calls
delete_access_token(user_id, token_id) == storage_delete(tokens, user_id, token_id)

\* a slip: token_id is dropped, every record of the user is revoked
revoke_access_token_whole_user(user_id, token_id) ==
  { IF r.user_id = user_id THEN [r EXCEPT !.revoked = TRUE] ELSE r : r \in tokens }

\* a slip: the flag is flipped instead of set
revoke_access_token_toggle(user_id, token_id) ==
  { IF Str(r.id) = token_id /\ r.user_id = user_id
    THEN [r EXCEPT !.revoked = ~r.revoked]
    ELSE r : r \in tokens }

revoke_access_token(user_id, token_id) == storage_revoke(tokens, user_id, token_id)

(* ------------------------------- callers ------------------------------- *)

TokenIds == {Str(i) : i \in 1..MaxCalls}

\* uuid4(): a value never drawn before; the draws are numbered by the call that
\* makes them and the kind of token they are for
Uuid4(call, kind) == IF kind = "access" THEN 2 * call - 1 ELSE 2 * call

\* the jti of a token signed elsewhere
ForeignJti == 0

Jtis == {ForeignJti} \cup {Uuid4(k, kind) : k \in 1..MaxCalls, kind \in {"access", "refresh"}}

\* tokens signed elsewhere, under a complete configuration, which a caller may
\* bring along
ForeignAccess(cfg) == _create_access_token(JwtConfig(FALSE), "u1", ForeignJti)

ForeignRefresh(cfg) == _create_refresh_token(JwtConfig(FALSE), "u1", ForeignJti)

\* what a caller may pass as access_token / refresh_token: nothing, "", or a token
AccessArgs == {None, EmptyStr, ForeignAccess(config)}

RefreshArgs == {None, EmptyStr, ForeignRefresh(config)}

NoFrame == [type |-> "NoneType"]

NoCall == [op |-> "none"]

Init ==
  /\ config = JwtConfig(FALSE)
  /\ user_claims_loader = Dict({})
  /\ tokens = {}
  /\ next_id = 1
  /\ now = 1
  /\ calls = 0
  /\ pc = [c \in Clients |-> "idle"]
  /\ frame = [c \in Clients |-> NoFrame]
  /\ created = NoCall
  /\ deleted = {}
  /\ freed = {}

\* a new call is served by the first free handler
FirstIdle(c) == pc[c] = "idle" /\ \A d \in Clients : pc[d] = "idle" => c <= d

\* the response of a call that an exception has left
RaisedRet(op, user_id, name, exc) ==
  [ op |-> op,
    user_id |-> user_id,
    name |-> name,
    status |-> exc,
    value |-> Raised(exc),
    sent_jti |-> None ]

\* create_access_token up to the call of the store: sign what was not given; an
\* exception of the signer leaves the call before the store is reached
create_access_token_sign(c, user_id, name, access_token, refresh_token) ==
  LET sign_access == Falsy(access_token)
      sign_refresh == Falsy(refresh_token)
      call == calls + 1
      access == IF sign_access
                THEN _create_access_token(config, user_id, Uuid4(call, "access"))
                ELSE access_token
      refresh == IF sign_refresh
                 THEN _create_refresh_token(config, user_id, Uuid4(call, "refresh"))
                 ELSE refresh_token
  IN /\ FirstIdle(c)
     /\ calls < MaxCalls
     /\ calls' = call
     /\ IF access = Raised("KeyError") \/ refresh = Raised("KeyError")
        THEN /\ created' = RaisedRet("create_access_token", user_id, name, "KeyError")
             /\ UNCHANGED <<frame, pc>>
        ELSE /\ frame' = [frame EXCEPT ![c] =
                  [ user_id |-> user_id,
                    name |-> name,
                    access_token |-> access,
                    refresh_token |-> refresh ]]
             /\ pc' = [pc EXCEPT ![c] = "create_store"]
             /\ UNCHANGED created
     /\ UNCHANGED <<config, user_claims_loader, tokens, next_id, now, deleted, freed>>

\* the response of a create_access_token call, with what the call sent to the store
CreateRet(f, status, value) ==
  [ op |-> "create_access_token",
    user_id |-> f.user_id,
    name |-> f.name,
    status |-> status,
    value |-> value,
    sent_jti |-> JtiOf(f.access_token) ]

\* a slip: a conflict on the name is answered with the row that holds the name
create_access_token_store_get_or_create(c) ==
  LET f == frame[c]
      row == storage_new_row(next_id, now, f.name, f.user_id, f.access_token, f.refresh_token)
      held == storage_get_by_name(tokens, f.user_id, f.name)
  IN /\ pc[c] = "create_store"
     /\ IF held # None
        THEN /\ created' = CreateRet(f, "ok", AccessToken(held))
             /\ UNCHANGED <<tokens, next_id, now>>
        ELSE IF storage_conflict(tokens, f.name, f.user_id, f.access_token)
        THEN /\ created' = CreateRet(f, "conflict", None)
             /\ UNCHANGED <<tokens, next_id, now>>
        ELSE /\ tokens' = tokens \cup {row}
             /\ next_id' = next_id + 1
             /\ now' = now + 1
             /\ created' = CreateRet(f, "ok", AccessToken(row))
     /\ pc' = [pc EXCEPT ![c] = "idle"]
     /\ frame' = [frame EXCEPT ![c] = NoFrame]
     /\ UNCHANGED <<config, user_claims_loader, calls, deleted, freed>>

\* a slip: user_id is passed to the store in the place of name
create_access_token_store_name_typo(c) ==
  LET f == frame[c]
      row == storage_new_row(next_id, now, f.user_id, f.user_id, f.access_token, f.refresh_token)
  IN /\ pc[c] = "create_store"
     /\ IF storage_conflict(tokens, f.user_id, f.user_id, f.access_token)
        THEN /\ created' = CreateRet(f, "conflict", None)
             /\ UNCHANGED <<tokens, next_id, now>>
        ELSE /\ tokens' = tokens \cup {row}
             /\ next_id' = next_id + 1
             /\ now' = now + 1
             /\ created' = CreateRet(f, "ok", AccessToken(row))
     /\ pc' = [pc EXCEPT ![c] = "idle"]
     /\ frame' = [frame EXCEPT ![c] = NoFrame]
     /\ UNCHANGED <<config, user_claims_loader, calls, deleted, freed>>

\* a slip: the store's exception is caught and None is returned
create_access_token_store_swallows(c) ==
  LET f == frame[c]
      row == storage_new_row(next_id, now, f.name, f.user_id, f.access_token, f.refresh_token)
  IN /\ pc[c] = "create_store"
     /\ IF storage_conflict(tokens, f.name, f.user_id, f.access_token)
        THEN /\ created' = CreateRet(f, "ok", None)
             /\ UNCHANGED <<tokens, next_id, now>>
        ELSE /\ tokens' = tokens \cup {row}
             /\ next_id' = next_id + 1
             /\ now' = now + 1
             /\ created' = CreateRet(f, "ok", AccessToken(row))
     /\ pc' = [pc EXCEPT ![c] = "idle"]
     /\ frame' = [frame EXCEPT ![c] = NoFrame]
     /\ UNCHANGED <<config, user_claims_loader, calls, deleted, freed>>

\* create_access_token from the call of the store to the return
create_access_token_store(c) ==
  LET f == frame[c]
      row == storage_new_row(next_id, now, f.name, f.user_id, f.access_token, f.refresh_token)
  IN /\ pc[c] = "create_store"
     /\ IF storage_conflict(tokens, f.name, f.user_id, f.access_token)
        THEN /\ created' = CreateRet(f, "conflict", None)
             /\ UNCHANGED <<tokens, next_id, now>>
        ELSE /\ tokens' = tokens \cup {row}
             /\ next_id' = next_id + 1
             /\ now' = now + 1
             /\ created' = CreateRet(f, "ok", AccessToken(row))
     /\ pc' = [pc EXCEPT ![c] = "idle"]
     /\ frame' = [frame EXCEPT ![c] = NoFrame]
     /\ UNCHANGED <<config, user_claims_loader, calls, deleted, freed>>

\* the store is unavailable: its exception leaves create_access_token as it is
create_access_token_store_unavailable(c) ==
  /\ pc[c] = "create_store"
  /\ created' = CreateRet(frame[c], "unavailable", Raised("StoreUnavailable"))
  /\ pc' = [pc EXCEPT ![c] = "idle"]
  /\ frame' = [frame EXCEPT ![c] = NoFrame]
  /\ UNCHANGED <<config, user_claims_loader, tokens, next_id, now, calls, deleted, freed>>

call_delete_access_token(user_id, token_id) ==
  /\ tokens' = delete_access_token(user_id, token_id)
  /\ deleted' = IF \E r \in tokens : Str(r.id) = token_id /\ r.user_id = user_id
                THEN deleted \cup {token_id}
                ELSE deleted
  /\ freed' = freed \cup {<<r.user_id, r.name>> : r \in {q \in tokens : Str(q.id) = token_id /\ q.user_id = user_id}}
  /\ created' = NoCall
  /\ UNCHANGED <<config, user_claims_loader, next_id, now, calls, pc, frame>>

call_revoke_access_token(user_id, token_id) ==
  /\ tokens' = revoke_access_token(user_id, token_id)
  /\ created' = NoCall
  /\ UNCHANGED <<config, user_claims_loader, next_id, now, calls, pc, frame, deleted, freed>>

\* what a call other than create_access_token leaves in created
Completed(value) ==
  IF value = Raised("AttributeError")
  THEN [op |-> "raised", exc |-> "AttributeError"]
  ELSE NoCall

\* a slip: get stamps the row it returns as used
call_get_marks_used(token_id) ==
  /\ tokens' = { IF Str(r.id) = token_id THEN [r EXCEPT !.last_used_on = Time(now)] ELSE r : r \in tokens }
  /\ created' = Completed(get(token_id))
  /\ UNCHANGED <<config, user_claims_loader, next_id, now, calls, pc, frame, deleted, freed>>

\* the lookups only read the store
call_get(token_id) ==
  /\ created' = Completed(get(token_id))
  /\ UNCHANGED <<config, user_claims_loader, tokens, next_id, now, calls, pc, frame, deleted, freed>>

call_get_by_name(user_id, name) ==
  /\ created' = Completed(get_by_name(user_id, name))
  /\ UNCHANGED <<config, user_claims_loader, tokens, next_id, now, calls, pc, frame, deleted, freed>>

call_get_by_jti(user_id, jti) ==
  /\ created' = Completed(get_by_jti(user_id, jti))
  /\ UNCHANGED <<config, user_claims_loader, tokens, next_id, now, calls, pc, frame, deleted, freed>>

call_get_by_user(user_id) ==
  /\ created' = IF \E i \in DOMAIN get_by_user(user_id) : get_by_user(user_id)[i] = Raised("AttributeError")
                THEN Completed(Raised("AttributeError"))
                ELSE NoCall
  /\ UNCHANGED <<config, user_claims_loader, tokens, next_id, now, calls, pc, frame, deleted, freed>>

Next ==
  \/ \E c \in Clients, u \in Users, n \in Names, a \in AccessArgs, r \in RefreshArgs :
       create_access_token_sign(c, u, n, a, r)
  \/ \E c \in Clients : create_access_token_store(c)
  \/ \E u \in Users, t \in TokenIds : call_delete_access_token(u, t)
  \/ \E u \in Users, t \in TokenIds : call_revoke_access_token(u, t)
  \/ \E t \in TokenIds : call_get(t)
  \/ \E u \in Users, n \in Names : call_get_by_name(u, n)
  \/ \E u \in Users, j \in Jtis : call_get_by_jti(u, j)
  \/ \E u \in Users : call_get_by_user(u)

Spec == Init /\ [][Next]_vars

(* ------------------- the signer and the failures ----------------------- *)

\* identities handed to the signer: no format is asked of them
Identities == {"", "u1", "not a uuid"}

\* what a registered user-claims loader may return
Loaders == {Dict({}), Dict({<<"role", "admin">>})}

\* a dict without one of its keys
Without(d, key) == [k \in DOMAIN d \ {key} |-> d[k]]

\* configurations: complete, or with the secret or the algorithm absent
FaultyConfigs ==
  Configs \cup {Without(cfg, key) : cfg \in Configs, key \in {"secret_key", "algorithm"}}

\* the response of a call of the signer
SignerRet(op, identity, value) ==
  [ op |-> op,
    identity |-> identity,
    status |-> IF value = Raised("KeyError") THEN "KeyError" ELSE "ok",
    value |-> value ]

call__create_access_token(identity) ==
  /\ calls < MaxCalls
  /\ calls' = calls + 1
  /\ created' = SignerRet("_create_access_token", identity,
                          _create_access_token(config, identity, Uuid4(calls + 1, "access")))
  /\ UNCHANGED <<config, user_claims_loader, tokens, next_id, now, pc, frame, deleted, freed>>

call__create_refresh_token(identity) ==
  /\ calls < MaxCalls
  /\ calls' = calls + 1
  /\ created' = SignerRet("_create_refresh_token", identity,
                          _create_refresh_token(config, identity, Uuid4(calls + 1, "refresh")))
  /\ UNCHANGED <<config, user_claims_loader, tokens, next_id, now, pc, frame, deleted, freed>>

\* any configuration and any loader; the store may be unavailable
InitFaults ==
  /\ config \in FaultyConfigs
  /\ user_claims_loader \in Loaders
  /\ tokens = {}
  /\ next_id = 1
  /\ now = 1
  /\ calls = 0
  /\ pc = [c \in Clients |-> "idle"]
  /\ frame = [c \in Clients |-> NoFrame]
  /\ created = NoCall
  /\ deleted = {}
  /\ freed = {}

NextFaults ==
  \/ \E c \in Clients, u \in Users, n \in Names, a \in AccessArgs, r \in RefreshArgs :
       create_access_token_sign(c, u, n, a, r)
  \/ \E c \in Clients : create_access_token_store(c)
  \/ \E c \in Clients : create_access_token_store_unavailable(c)
  \/ \E identity \in Identities : call__create_access_token(identity)
  \/ \E identity \in Identities : call__create_refresh_token(identity)

SpecFaults == InitFaults /\ [][NextFaults]_vars

(* ------------------------------- claims -------------------------------- *)

\* a lookup result that is the record with primary key token_id
IsRecord(value, token_id) == value # None /\ value.id = token_id

\* some lookup of the service returns the record with primary key token_id
Retrievable(token_id) ==
  \/ IsRecord(get(token_id), token_id)
  \/ \E u \in Users, n \in Names : IsRecord(get_by_name(u, n), token_id)
  \/ \E u \in Users, j \in Jtis : IsRecord(get_by_jti(u, j), token_id)
  \/ \E u \in Users : \E i \in DOMAIN get_by_user(u) : get_by_user(u)[i].id = token_id

\* the row with primary key token_id is stored and owned by user_id
Owned(user_id, token_id) == \E r \in tokens : Str(r.id) = token_id /\ r.user_id = user_id

\* the store has given the primary key token_id to a row
Allocated(token_id) == \E i \in 1..(next_id - 1) : Str(i) = token_id

\* C1: once delete_access_token(u, t) has completed for a record t of u, get(t) is
\* absent and no lookup (get, get_by_name, get_by_jti, get_by_user) returns the
\* record again, whatever calls follow
C1_DeletionFinality ==
  \A t \in deleted : get(t) = None /\ ~Retrievable(t)

\* a record was deleted and a later create_access_token has succeeded
C1_Witness ==
  /\ deleted # {}
  /\ created.op = "create_access_token"
  /\ created.status = "ok"
  /\ created.value.id \notin deleted

\* C2: a record that a lookup returns with revoked = true is never returned with
\* revoked = false afterwards: a step leaves it revoked or removes it, and a
\* removed record does not come back (the lookups read nothing but the table, so
\* the steps to look at are those that change it)
C2_RevocationIrreversible ==
  [][\/ UNCHANGED tokens
     \/ \A t \in TokenIds :
          /\ (get(t) # None /\ get(t).revoked) => (get(t)' = None \/ get(t)'.revoked)
          /\ (Allocated(t) /\ get(t) = None) => get(t)' = None]_vars

\* a revoked record is stored next to a record created after it
C2_Witness ==
  \E r \in tokens, q \in tokens : r.revoked /\ ~q.revoked /\ r.id < q.id

\* C3: revoke_access_token(u, t) on a record of u that is already revoked leaves
\* the store as it was, the record still revoked: no step that changes the table
\* is such a call
C3_IdempotentRevoke ==
  [][\/ UNCHANGED tokens
     \/ \A u \in Users, t \in TokenIds :
          (Owned(u, t) /\ get(t).revoked) => ~call_revoke_access_token(u, t)]_vars

\* a revoked record, seen after a call that was not a create
C3_Witness ==
  /\ created = NoCall
  /\ \E t \in TokenIds : get(t) # None /\ get(t).revoked

\* the call that completed last is a create_access_token for (user_id, name)
LastCreate(user_id, name) ==
  created.op = "create_access_token" /\ created.user_id = user_id /\ created.name = name

\* the stored row r is the one the call that completed last has created
CreatedRow(r) ==
  created.op = "create_access_token" /\ created.status = "ok" /\ created.value.id = Str(r.id)

\* client c is about to reach the store with a create for the (user_id, name) of
\* the create that completed last, and no row older than the two calls holds the
\* name or the jti of either access token
RacePair(c) ==
  /\ pc[c] = "create_store"
  /\ LastCreate(frame[c].user_id, frame[c].name)
  /\ \A r \in tokens :
       ( \/ (r.user_id = frame[c].user_id /\ r.name = frame[c].name)
         \/ r.jti \in {created.sent_jti, JtiOf(frame[c].access_token)} ) => CreatedRow(r)

\* C4: of two create_access_token calls for the same (user_id, name) that reach
\* the store one after the other, in any interleaving of their steps, exactly one
\* succeeds and the other gets the conflict error, which adds no row
C4_UniquenessUnderRaces ==
  [][\A c \in Clients :
       (create_access_token_store(c) /\ RacePair(c))
          => /\ {created.status, created'.status} = {"ok", "conflict"}
             /\ created.status = "ok" => tokens' = tokens]_vars

\* both calls are over: one row holds the name, the other call got the conflict
C4_Witness ==
  /\ calls = 2
  /\ \A c \in Clients : pc[c] = "idle"
  /\ created.op = "create_access_token"
  /\ created.status = "conflict"
  /\ deleted = {}
  /\ Cardinality(tokens) = 1
  /\ \E r \in tokens : r.user_id = created.user_id /\ r.name = created.name

\* C5: no two stored records share a jti, and no two stored records of one user
\* share a name
C5_UniqueJtiAndName ==
  \A r \in tokens, q \in tokens :
    r.id # q.id => /\ r.jti # q.jti
                   /\ ~(r.user_id = q.user_id /\ r.name = q.name)

\* two users hold a record of the same name
C5_Witness ==
  \E r \in tokens, q \in tokens : r.id # q.id /\ r.name = q.name /\ r.user_id # q.user_id

\* every record the service returns in the current state
Returned ==
  ( {get(t) : t \in TokenIds}
    \cup {get_by_name(u, n) : u \in Users, n \in Names}
    \cup {get_by_jti(u, j) : u \in Users, j \in Jtis}
    \cup UNION {{get_by_user(u)[i] : i \in DOMAIN get_by_user(u)} : u \in Users}
    \cup (IF created.op = "create_access_token" THEN {created.value} ELSE {}) ) \ {None}

Successive(c) ==
  /\ pc[c] = "create_store"
  /\ created.op = "create_access_token"
  /\ created.user_id = frame[c].user_id
  /\ created.name # frame[c].name
  /\ \A r \in tokens :
       (r.user_id = frame[c].user_id /\ r.name \in {created.name, frame[c].name})
          => CreatedRow(r)

\* both calls succeed and return records that differ in id and jti
BothCreated ==
  /\ created.status = "ok"
  /\ created'.status = "ok"
  /\ created.value.id # created'.value.id
  /\ created.value.jti # created'.value.jti

\* C7 as claimed: two successive create_access_token calls for one user and two
\* names both succeed with distinct records, whatever tokens the caller supplies
C7_Original ==
  [][\A c \in Clients :
       (create_access_token_store(c) /\ Successive(c)) => BothCreated]_vars

\* the access tokens of the two calls carry different jtis, which no row older
\* than the two calls holds
DistinctJtis(c) ==
  /\ created.sent_jti # JtiOf(frame[c].access_token)
  /\ \A r \in tokens :
       r.jti \in {created.sent_jti, JtiOf(frame[c].access_token)} => CreatedRow(r)

\* C7: two successive create_access_token calls for one user and two names both
\* succeed with records distinct in id and jti, for any refresh_token arguments,
\* when their access tokens carry different jtis that no stored record has (as
\* signed tokens always do)
C7_Distinctness ==
  [][\A c \in Clients :
       (create_access_token_store(c) /\ Successive(c) /\ DistinctJtis(c)) => BothCreated]_vars

\* one user holds two records, the second created right after the first, one of
\* them with a supplied access token
C7_Witness ==
  /\ created.op = "create_access_token"
  /\ created.status = "ok"
  /\ created.value.id = Str(2)
  /\ \E r \in tokens, q \in tokens :
       /\ r.id = 1 /\ q.id = 2
       /\ r.user_id = q.user_id /\ r.name # q.name
       /\ r.access_token = ForeignAccess(config)
  /\ deleted = {}

\* C8: revoke_access_token(u, t) and delete_access_token(u, t) for a t that is not
\* stored or not owned by u raise nothing and leave the store as it was, so that
\* every lookup returns what it did: no step that changes the table is such a call
C8_SilentNoOp ==
  [][\/ UNCHANGED tokens
     \/ \A u \in Users, t \in TokenIds :
          ~Owned(u, t) => ~(call_revoke_access_token(u, t) \/ call_delete_access_token(u, t))]_vars

\* another user's record is stored, not revoked, after a call that was no create
C8_Witness ==
  /\ created = NoCall
  /\ deleted = {}
  /\ \E r \in tokens : r.user_id = "u2" /\ ~r.revoked
  /\ \A r \in tokens : r.user_id # "u1"

\* C9: get, get_by_name and get_by_jti return None, and raise nothing, when no
\* record matches: for a key never used and for a deleted record
C9_NotFoundIsAValue ==
  /\ created.op # "raised"
  /\ \A t \in TokenIds :
       /\ get(t) # Raised("AttributeError")
       /\ (~\E r \in tokens : Str(r.id) = t) => get(t) = None
  /\ \A u \in Users, n \in Names :
       /\ get_by_name(u, n) # Raised("AttributeError")
       /\ (~\E r \in tokens : r.user_id = u /\ r.name = n) => get_by_name(u, n) = None
  /\ \A u \in Users, j \in Jtis :
       /\ get_by_jti(u, j) # Raised("AttributeError")
       /\ (~\E r \in tokens : r.user_id = u /\ r.jti = j) => get_by_jti(u, j) = None

\* one record is deleted, one primary key was never given, and a call that was no
\* create has completed
C9_Witness ==
  /\ created = NoCall
  /\ \E t \in deleted : get(t) = None
  /\ \E t \in TokenIds : ~Allocated(t) /\ get(t) = None

\* C10: create_access_token signs a token of a kind exactly when the caller gave
\* none (None or ""), access and refresh each on its own; a given token is sent to
\* the store as it is; the record returned carries the tokens sent, a jti, and
\* revoked = false, and is the record stored
C10_SignsWhatIsMissing ==
  [][/\ \/ UNCHANGED calls
        \/ \A c \in Clients, u \in Users, n \in Names, a \in AccessArgs, r \in RefreshArgs :
          create_access_token_sign(c, u, n, a, r)
             => /\ frame'[c].access_token =
                     IF a \in {None, EmptyStr}
                     THEN _create_access_token(config, u, Uuid4(calls', "access"))
                     ELSE a
                /\ frame'[c].refresh_token =
                     IF r \in {None, EmptyStr}
                     THEN _create_refresh_token(config, u, Uuid4(calls', "refresh"))
                     ELSE r
     /\ \A c \in Clients :
          (create_access_token_store(c) /\ created'.status = "ok")
             => /\ created'.value.access_token = frame[c].access_token
                /\ created'.value.refresh_token = frame[c].refresh_token
                /\ created'.value.access_token \notin {None, EmptyStr}
                /\ created'.value.refresh_token \notin {None, EmptyStr}
                /\ created'.value.jti \in Jtis
                /\ created'.value.revoked = FALSE
                /\ \E row \in tokens' \ tokens : AccessToken(row) = created'.value]_vars

\* a record created with a supplied access token and a signed refresh token
C10_Witness ==
  /\ created.op = "create_access_token"
  /\ created.status = "ok"
  /\ created.value.access_token = ForeignAccess(config)
  /\ created.value.refresh_token \in
       {_create_refresh_token(config, created.user_id, Uuid4(k, "refresh")) : k \in 1..MaxCalls}

\* C12: no step changes a field other than revoked of a record that stays stored,
\* and revoke_access_token(u, t) sets the flag of record t only: every other
\* record is returned as before
C12_FieldsImmutable ==
  [][\/ UNCHANGED tokens
     \/ /\ \A t \in TokenIds :
             (get(t) # None /\ get(t)' # None)
                => [get(t)' EXCEPT !.revoked = get(t).revoked] = get(t)
        /\ \A u \in Users, t \in TokenIds :
             call_revoke_access_token(u, t)
                => /\ \A i \in TokenIds \ {t} : get(i)' = get(i)
                   /\ get(t) # None /\ get(t)' # None /\ get(t)'.revoked]_vars

\* a user holds a revoked record and one that is not revoked
C12_Witness ==
  /\ created = NoCall
  /\ \E r \in tokens, q \in tokens : r.user_id = q.user_id /\ r.revoked /\ ~q.revoked

\* C13: get_by_user(u) returns the records of u that are stored, revoked or not,
\* each once and as get returns it: every record created and not deleted is in
\* the list of its owner, and no list holds a deleted record or a record of
\* another user
C13_GetByUserExact ==
  \A u \in Users :
    LET result == get_by_user(u)
    IN /\ \A i \in DOMAIN result :
            /\ result[i].user_id = u
            /\ result[i].id \notin deleted
            /\ result[i] = get(result[i].id)
       /\ \A i \in DOMAIN result, j \in DOMAIN result : result[i].id = result[j].id => i = j
       /\ \A t \in TokenIds :
            (Allocated(t) /\ t \notin deleted)
               => /\ get(t) # None
                  /\ get(t).user_id = u => \E i \in DOMAIN result : result[i] = get(t)

\* one record was deleted and a revoked one is listed
C13_Witness ==
  /\ deleted # {}
  /\ \E u \in Users : \E i \in DOMAIN get_by_user(u) : get_by_user(u)[i].revoked

\* C14: get_by_name(u, n) and get_by_jti(u, j) return a record only when it is a
\* record of u with that name or jti; asked with the jti of another user's
\* record, or with a name only another user holds, they return None
C14_LookupsScopedToUser ==
  \A u \in Users :
    /\ \A n \in Names :
         get_by_name(u, n) # None => (get_by_name(u, n).user_id = u /\ get_by_name(u, n).name = n)
    /\ \A j \in Jtis :
         get_by_jti(u, j) # None => (get_by_jti(u, j).user_id = u /\ get_by_jti(u, j).jti = j)
    /\ \A t \in TokenIds :
         (get(t) # None /\ get(t).user_id # u)
            => /\ get_by_jti(u, get(t).jti) = None
               /\ get_by_name(u, get(t).name) # get(t)
               /\ (\A i \in DOMAIN get_by_user(u) : get_by_user(u)[i].name # get(t).name)
                     => get_by_name(u, get(t).name) = None

\* each user holds one record, one of them under a name the other user lacks
C14_Witness ==
  \E r \in tokens, q \in tokens :
    r.user_id = "u1" /\ q.user_id = "u2" /\ r.name # q.name /\ r.jti # ForeignJti

\* C19: get, get_by_name, get_by_jti and get_by_user leave the table as it was, no
\* row added, removed or changed in any field: no step that changes the table is
\* a lookup
C19_LookupsReadOnly ==
  [][\/ UNCHANGED tokens
     \/ ~ \/ \E t \in TokenIds : call_get(t)
          \/ \E u \in Users, n \in Names : call_get_by_name(u, n)
          \/ \E u \in Users, j \in Jtis : call_get_by_jti(u, j)
          \/ \E u \in Users : call_get_by_user(u)]_vars

\* two records are stored, one of them revoked, after a call that was no create
C19_Witness ==
  /\ created = NoCall
  /\ Cardinality(tokens) = 2
  /\ \E r \in tokens : r.revoked /\ r.last_used_on = None

\* client c is about to reach the store with a create for a <<user_id, name>>
\* that a deleted record has held and no stored record holds, its access token
\* signed by the service or carrying a jti no stored record has
ReusesName(c) ==
  /\ pc[c] = "create_store"
  /\ <<frame[c].user_id, frame[c].name>> \in freed
  /\ get_by_name(frame[c].user_id, frame[c].name) = None
  /\ \/ JtiOf(frame[c].access_token) # ForeignJti
     \/ \A r \in tokens : r.jti # JtiOf(frame[c].access_token)

\* C20: delete_access_token(u, t) of a record of u named n frees the name, and a
\* later create_access_token(u, n) succeeds with a new id and revoked = false;
\* get_by_name(u, n) then returns the new record and get of every deleted id
\* stays None
C20_NameReusableAfterDelete ==
  [][/\ \/ UNCHANGED deleted
        \/ \A t \in deleted' \ deleted :
             /\ get(t) # None
             /\ get(t)' = None
             /\ \A u \in Users, n \in Names :
                  (get(t).user_id = u /\ get(t).name = n)
                     => (get_by_name(u, n)' = None /\ <<u, n>> \in freed')
     /\ \A c \in Clients :
          (ReusesName(c) /\ create_access_token_store(c))
             => /\ created'.status = "ok"
                /\ created'.value.id \notin deleted
                /\ created'.value.revoked = FALSE
                /\ \A u \in Users, n \in Names :
                     (frame[c].user_id = u /\ frame[c].name = n)
                        => get_by_name(u, n)' = created'.value
                /\ created'.value \in {AccessToken(row) : row \in tokens' \ tokens}
                /\ \A t \in deleted : get(t)' = None]_vars

\* a record was deleted, and the create that completed last has given its name
\* to a new record
C20_Witness ==
  /\ created.op = "create_access_token"
  /\ created.status = "ok"
  /\ <<created.user_id, created.name>> \in freed
  /\ deleted # {}
  /\ created.value.id \notin deleted
  /\ get_by_name(created.user_id, created.name) = created.value

\* C11: a create_access_token call reaches the store once and is over with the
\* store's answer: a conflict or an unavailable store is what the caller gets,
\* and then no row is added and none is changed
C11_StoreErrorsSurfaced ==
  [][\A c \in Clients :
       /\ create_access_token_store(c)
            => /\ pc'[c] = "idle"
               /\ storage_conflict(tokens, frame[c].name, frame[c].user_id, frame[c].access_token)
                    => (created'.status = "conflict" /\ tokens' = tokens /\ next_id' = next_id)
               /\ created'.status = "ok" => Cardinality(tokens') = Cardinality(tokens) + 1
       /\ create_access_token_store_unavailable(c)
            => /\ pc'[c] = "idle"
               /\ created'.status = "unavailable"
               /\ created'.value = Raised("StoreUnavailable")
               /\ tokens' = tokens /\ next_id' = next_id]_vars

\* a call has met an unavailable store after another call has stored a record
C11_Witness ==
  /\ created.op = "create_access_token"
  /\ created.status = "unavailable"
  /\ tokens # {}
  /\ \A c \in Clients : pc[c] = "idle"

\* the access tokens the service has signed: the one the signer returned last and
\* those of the create_access_token calls on their way to the store
SignedAccess ==
  (IF created.op = "_create_access_token" /\ created.status = "ok" THEN {created.value} ELSE {})
  \cup ({frame[c].access_token : c \in {d \in Clients : pc[d] = "create_store"}} \ {ForeignAccess(config)})

SignedRefresh ==
  (IF created.op = "_create_refresh_token" /\ created.status = "ok" THEN {created.value} ELSE {})
  \cup ({frame[c].refresh_token : c \in {d \in Clients : pc[d] = "create_store"}} \ {ForeignRefresh(config)})

\* C15: when the loader returns custom claims, every signed access token carries
\* them under user_claims_key, and a signed refresh token carries them exactly
\* when user_claims_in_refresh_token is true; it carries none when the flag is
\* false
C15_ClaimsInRefreshIffFlag ==
  /\ \A t \in SignedAccess :
       user_claims_loader # Dict({})
          => decode_token(t).user_claims = <<config.user_claims_key, user_claims_loader>>
  /\ \A t \in SignedRefresh :
       /\ user_claims_loader # Dict({})
            => ( decode_token(t).user_claims = <<config.user_claims_key, user_claims_loader>>
                 <=> config.user_claims_in_refresh_token )
       /\ ~config.user_claims_in_refresh_token => decode_token(t).user_claims = <<>>

\* the signer has returned a refresh token with custom claims in it
C15_Witness ==
  /\ created.op = "_create_refresh_token"
  /\ created.status = "ok"
  /\ config.user_claims_in_refresh_token
  /\ decode_token(created.value).user_claims = <<"user_claims", Dict({<<"role", "admin">>})>>

\* the custom claims read from decoded claims, as get_jwt_claims reads them: the
\* empty dict when the key is absent
ClaimsUnder(decoded, user_claims_key) ==
  IF decoded.user_claims # <<>> /\ decoded.user_claims[1] = user_claims_key
  THEN decoded.user_claims[2]
  ELSE Dict({})

C17_MissingKeyFailsBeforeStore ==
  [][\/ UNCHANGED calls
     \/ \A c \in Clients, u \in Users, n \in Names :
          ( /\ Missing(config, {"secret_key"}) \/ Missing(config, {"algorithm"})
            /\ create_access_token_sign(c, u, n, None, None) )
             => /\ created'.op = "create_access_token"
                /\ created'.status = "KeyError"
                /\ created'.value = Raised("KeyError")
                /\ pc'[c] = "idle"
                /\ tokens' = tokens
                /\ next_id' = next_id]_vars

\* a call has failed on a missing key while the store holds a row
C17_Witness ==
  /\ Missing(config, {"secret_key"}) \/ Missing(config, {"algorithm"})
  /\ created.op = "create_access_token"
  /\ created.status = "KeyError"
  /\ tokens # {}
  /\ \A c \in Clients : pc[c] = "idle"

\* C18: the signer rejects the empty identity and accepts every identity that
\* is not empty, whatever its format
C18_EmptyIdentityRejected ==
  created.op \in {"_create_access_token", "_create_refresh_token"}
     => /\ created.identity = "" => created.status # "ok"
        /\ (created.identity # "" /\ config \in Configs) => created.status = "ok"

=============================================================================
